---- MODULE Spec2Model ----
(***************************************************************************)
(* A model of the plaque counter: the suppression merger                   *)
(* (PlaqueDetector.non_max_suppression), the detection pipeline            *)
(* (PlaqueDetector.detect / segment_plaques and the /api/upload endpoint)  *)
(* and the retrain path (/api/retrain, PlaqueDetector.retrain).            *)
(*                                                                         *)
(* Conventions.                                                            *)
(*  - A detection is a record [x, y, radius, confidence]; confidence is    *)
(*    kept in tenths (0.8 is 8, 0.7 is 7), so the order of the floats is   *)
(*    the order of the integers.                                           *)
(*  - Sequences are 1-based here and 0-based in the source: index k here   *)
(*    is index k-1 there.                                                  *)
(*  - overlap_thresh is a rational <<num, den>>; with the small integer    *)
(*    boxes of the model the float comparison (w*h)/area > overlap_thresh  *)
(*    is the exact comparison w*h*den > num*area.                          *)
(***************************************************************************)
EXTENDS Integers, Sequences, FiniteSets, TLC

VARIABLES
    detections,      \* non_max_suppression: the input list of the call
    overlap_thresh,  \* non_max_suppression: its overlap_thresh argument
    pick,            \* non_max_suppression: the indices picked, in order
    kept,            \* the list the first call returned
    kept2,           \* the list a second call, on kept, returned
    nmsPc,           \* "input", "once" (one call made), "twice"
    via,             \* detect: who calls it, "direct" or "upload"
    scene,           \* detect: the image file behind image_path
    params,          \* detect: its params argument (given is FALSE for None)
    outcome,         \* detect: what its caller got back
    response,        \* upload_image: the HTTP response
    callPc,          \* "pending" or "done"
    model_version,   \* PlaqueDetector.model_version of the shared detector
    checkpoints,     \* model/checkpoints/version_<path>.pth files: [path, version]
    latest,          \* the version stored in model/checkpoints/latest.pth
    annCount,        \* annotation files in ANNOTATIONS_FOLDER
    existCount,      \* those whose image_id is a file of UPLOAD_FOLDER
    pc,              \* each retrain request's position
    tmp,             \* each request's value read for model_version += 1
    path,            \* each request's version in the checkpoint file name
    savedAs,         \* each request's checkpoint: [path, version]
    calls            \* each request as observed: the counts it read, and
                     \* model_version when it began and when it was answered

nmsVars == <<detections, overlap_thresh, pick, kept, kept2, nmsPc>>

detectVars == <<via, scene, params, outcome, response, callPc>>

retrainVars ==
    <<model_version, checkpoints, latest, annCount, existCount, pc, tmp, path,
      savedAs, calls>>

vars == <<nmsVars, detectVars, retrainVars>>

----------------------------------------------------------------------------
(* Bounds of the model *)

MaxLen == 3
MaxCoord == 2
MaxRadiusParam == 3
MaxFeatures == 2
MaxRequests == 2
MaxAnnotations == 6

\* Centers: a row of MaxCoord + 1 pixels and one pixel below it.
Centers == {<<cx, 0>> : cx \in 0..MaxCoord} \cup {<<1, 1>>}
Radii == {0, 1}
HOUGH_CONF == 8
CONTOUR_CONF == 7
Confidences == {CONTOUR_CONF, HOUGH_CONF}
DEFAULT_THRESH == <<1, 2>>
Thresholds == {DEFAULT_THRESH, <<1, 3>>}

Requests == 1..MaxRequests

NotSaved == [path |-> 0, version |-> 0]

NoCall == [ann |-> 0, exist |-> 0, before |-> 0, after |-> 0]

Detection ==
    {[x |-> c[1], y |-> c[2], radius |-> r, confidence |-> f] :
        c \in Centers, r \in Radii, f \in Confidences}

----------------------------------------------------------------------------
(* PlaqueDetector.non_max_suppression *)

Max(a, b) == IF a >= b THEN a ELSE b
Min(a, b) == IF a <= b THEN a ELSE b

\* boxes.append([x - r, y - r, x + r, y + r, det['confidence']])
Box(det) ==
    <<det.x - det.radius, det.y - det.radius,
      det.x + det.radius, det.y + det.radius, det.confidence>>

Boxes(dets) == [k \in 1..Len(dets) |-> Box(dets[k])]

\* One step of the insertion sort numpy's quicksort runs on a partition of at
\* most 16 elements: i moves left past every element strictly greater.
RECURSIVE InsertIdx(_, _, _)
InsertIdx(conf, sorted, i) ==
    IF sorted # <<>> /\ conf[i] < conf[sorted[Len(sorted)]]
    THEN Append(InsertIdx(conf, SubSeq(sorted, 1, Len(sorted) - 1), i),
                sorted[Len(sorted)])
    ELSE Append(sorted, i)

RECURSIVE ArgsortUpTo(_, _)
ArgsortUpTo(conf, n) ==
    IF n = 0 THEN <<>> ELSE InsertIdx(conf, ArgsortUpTo(conf, n - 1), n)

\* An argsort by descending confidence, the sort order the loop does not expect.
ArgsortDescending(boxes) ==
    ArgsortUpTo([k \in 1..Len(boxes) |-> 0 - boxes[k][5]], Len(boxes))

\* idxs = np.argsort(boxes[:, 4]): the indices by ascending confidence; equal
\* confidences keep their input order (lists of the model are far below 16).
Argsort(boxes) == ArgsortUpTo([k \in 1..Len(boxes) |-> boxes[k][5]], Len(boxes))

\* The overlap taken over the area of the current best instead of the
\* compared box.
OverlapExceedsOverBest(bi, bj, thresh) ==
    LET w == Max(0, Min(bi[3], bj[3]) - Max(bi[1], bj[1]) + 1)
        h == Max(0, Min(bi[4], bj[4]) - Max(bi[2], bj[2]) + 1)
        area == (bi[3] - bi[1] + 1) * (bi[4] - bi[2] + 1)
    IN  w * h * thresh[2] > thresh[1] * area

\* The comparison overlap >= overlap_thresh instead of overlap > overlap_thresh.
OverlapAtLeast(bi, bj, thresh) ==
    LET w == Max(0, Min(bi[3], bj[3]) - Max(bi[1], bj[1]) + 1)
        h == Max(0, Min(bi[4], bj[4]) - Max(bi[2], bj[2]) + 1)
        area == (bj[3] - bj[1] + 1) * (bj[4] - bj[2] + 1)
    IN  w * h * thresh[2] >= thresh[1] * area

\* overlap > overlap_thresh for the current best bi and a remaining box bj:
\* intersection (widths and heights counted with +1) over the area of bj.
OverlapExceeds(bi, bj, thresh) ==
    LET xx1 == Max(bi[1], bj[1])
        yy1 == Max(bi[2], bj[2])
        xx2 == Min(bi[3], bj[3])
        yy2 == Min(bi[4], bj[4])
        w == Max(0, xx2 - xx1 + 1)
        h == Max(0, yy2 - yy1 + 1)
        area == (bj[3] - bj[1] + 1) * (bj[4] - bj[2] + 1)
    IN  w * h * thresh[2] > thresh[1] * area

\* idxs = np.delete(idxs, [last] ++ where(overlap > overlap_thresh))
Remaining(boxes, idxs, thresh) ==
    LET last == Len(idxs)
        i == idxs[last]
        Keep(j) == ~OverlapExceeds(boxes[i], boxes[j], thresh)
    IN  SelectSeq(SubSeq(idxs, 1, last - 1), Keep)

\* The while loop: pick the last index, drop it and what overlaps it.
RECURSIVE NmsLoop(_, _, _, _)
NmsLoop(boxes, idxs, picked, thresh) ==
    IF Len(idxs) = 0 THEN picked
    ELSE NmsLoop(boxes, Remaining(boxes, idxs, thresh),
                 Append(picked, idxs[Len(idxs)]), thresh)

\* A loop that starts from idxs[:last], without the most confident index.
NmsPickFromSecond(dets, thresh) ==
    IF Len(dets) = 0 THEN <<>>
    ELSE LET idxs == Argsort(Boxes(dets))
         IN  NmsLoop(Boxes(dets), SubSeq(idxs, 1, Len(idxs) - 1), <<>>, thresh)

\* pick, as the loop leaves it; the two early returns give no index.
NmsPick(dets, thresh) ==
    IF Len(dets) = 0 THEN <<>>
    ELSE NmsLoop(Boxes(dets), Argsort(Boxes(dets)), <<>>, thresh)

\* return [detections[i] for i in pick]
non_max_suppression(dets, thresh) ==
    LET p == NmsPick(dets, thresh) IN [k \in 1..Len(p) |-> dets[p[k]]]

----------------------------------------------------------------------------
(* The detection pipeline: PlaqueDetector.detect and what it calls.        *)
(*                                                                         *)
(* An image file is abstracted to what the library calls find in it:       *)
(*   loadable  whether cv2.imread decodes it (None otherwise);             *)
(*   circles   the circles of the image a Hough search can report, as      *)
(*             float centers and radii in halves (r2 = 5 is 2.5);          *)
(*   contours  the contours cv2.findContours returns, each with its        *)
(*             contourArea in hundredths and its minEnclosingCircle in     *)
(*             halves.                                                     *)

IMAGE_SIZE == 16

NoParams ==
    [given |-> FALSE, min_radius |-> 0, max_radius |-> 0,
     sensitivity |-> 0, min_distance |-> 0]

\* if params is None: params = {...}
DefaultParams ==
    [given |-> TRUE, min_radius |-> 5, max_radius |-> 50,
     sensitivity |-> 30, min_distance |-> 20]

EffectiveParams(p) == IF p.given THEN p ELSE DefaultParams

NoOutcome == [status |-> "none", error |-> "", detections |-> <<>>, stages |-> <<>>]

Raised(err, stages) ==
    [status |-> "raised", error |-> err, detections |-> <<>>, stages |-> stages]

Returned(dets, stages) ==
    [status |-> "ok", error |-> "", detections |-> dets, stages |-> stages]

\* preprocess_image without its None check: cv2.cvtColor fails on None.
preprocess_image_unchecked(sc) ==
    IF ~sc.loadable
    THEN Raised("cv2.error", <<"imread", "to_rgb">>)
    ELSE Returned(<<>>, <<"imread", "to_rgb">>)

\* preprocess_image: cv2.imread, the None check, cv2.cvtColor to RGB.
preprocess_image(sc) ==
    IF ~sc.loadable
    THEN Raised("ValueError: Could not load image", <<"imread">>)
    ELSE Returned(<<>>, <<"imread", "to_rgb">>)

\* np.around on a value given in halves: to the nearest integer, a half to
\* the even neighbour.
Around2(v2) ==
    IF v2 % 2 = 0 THEN v2 \div 2
    ELSE IF ((v2 - 1) \div 2) % 2 = 0 THEN (v2 - 1) \div 2 ELSE (v2 + 1) \div 2

\* np.uint16(...)
Uint16(v) == v % 65536

\* int(...) of a non-negative float given in halves
IntOf2(v2) == v2 \div 2

\* cv2.HoughCircles(..., minRadius, maxRadius): the radius range it searches.
\* A maxRadius <= 0 stands for the largest image dimension, and a maxRadius
\* not above minRadius is replaced by minRadius + 2.
HoughMinRadius(p) == Max(0, p.min_radius)

HoughMaxRadius(p) ==
    IF p.max_radius <= 0 THEN IMAGE_SIZE
    ELSE IF p.max_radius <= HoughMinRadius(p) THEN HoughMinRadius(p) + 2
    ELSE p.max_radius

\* cv2.HoughCircles rejects a non-positive minDist or param2.
HoughRaises(p) == p.min_distance <= 0 \/ p.sensitivity <= 0

\* The circles cv2.HoughCircles reports: those of the image whose radius is in
\* the searched range; with a negative maxRadius, centers only (radius 0).
HoughCircles(sc, p) ==
    LET InRange(c) ==
            /\ 2 * HoughMinRadius(p) <= c.r2
            /\ c.r2 <= 2 * HoughMaxRadius(p)
        found == SelectSeq(sc.circles, InRange)
    IN  [k \in 1..Len(found) |->
            IF p.max_radius < 0 THEN [found[k] EXCEPT !.r2 = 0] ELSE found[k]]

\* circles = np.uint16(np.around(circles)); x, y, r = int(...); confidence 0.8
HoughDetections(circles) ==
    [k \in 1..Len(circles) |->
        [x |-> Uint16(Around2(circles[k].x2)),
         y |-> Uint16(Around2(circles[k].y2)),
         radius |-> Uint16(Around2(circles[k].r2)),
         confidence |-> HOUGH_CONF]]

\* detect_by_thresholding: the area filter (3.14 * radius ** 2, in hundredths),
\* the radius filter on the fitted float radius, then int(...); confidence 0.7
detect_by_thresholding(sc, p) ==
    LET min_area == p.min_radius * p.min_radius * 314
        max_area == p.max_radius * p.max_radius * 314
        Accepted(c) ==
            /\ min_area < c.area100 /\ c.area100 < max_area
            /\ 2 * p.min_radius <= c.radius2 /\ c.radius2 <= 2 * p.max_radius
        fitted == SelectSeq(sc.contours, Accepted)
    IN  [k \in 1..Len(fitted) |->
            [x |-> IntOf2(fitted[k].x2),
             y |-> IntOf2(fitted[k].y2),
             radius |-> IntOf2(fitted[k].radius2),
             confidence |-> CONTOUR_CONF]]

PreprocStages == <<"grayscale", "blur", "equalize">>

\* segment_plaques with a suppression that lacks its empty-list guards:
\* boxes[:, 4] on an empty array raises IndexError.
segment_plaques_unguarded(sc, given, done) ==
    LET p == EffectiveParams(given)
        s1 == done \o PreprocStages \o <<"hough">>
        s3 == s1 \o <<"threshold", "suppress">>
        cand == HoughDetections(HoughCircles(sc, p))
                    \o detect_by_thresholding(sc, p)
    IN  IF HoughRaises(p) THEN Raised("cv2.error", s1)
        ELSE IF cand = <<>> THEN Raised("IndexError", s3)
        ELSE Returned(non_max_suppression(cand, DEFAULT_THRESH), s3)

\* segment_plaques: grayscale, blur, CLAHE, HoughCircles, the thresholding
\* detector, then non_max_suppression with its default overlap_thresh.
segment_plaques(sc, given, done) ==
    LET p == EffectiveParams(given)
        s1 == done \o PreprocStages \o <<"hough">>
        s2 == s1 \o <<"threshold">>
        s3 == s2 \o <<"suppress">>
        cand == HoughDetections(HoughCircles(sc, p))
                    \o detect_by_thresholding(sc, p)
    IN  IF HoughRaises(p) THEN Raised("cv2.error", s1)
        ELSE Returned(non_max_suppression(cand, DEFAULT_THRESH), s3)

\* detect: preprocess_image, then segment_plaques; exceptions pass through.
detect(sc, given) ==
    LET pre == preprocess_image(sc)
    IN  IF pre.status = "raised" THEN pre
        ELSE segment_plaques(sc, given, pre.stages)

NoResponse == [code |-> 0, count |-> 0, detections |-> <<>>, error |-> ""]

\* upload_image: jsonify(response) of a returned list, or
\* except Exception as e: jsonify({'error': str(e)}), 500
upload_response(out) ==
    IF out.status = "ok"
    THEN [code |-> 200, count |-> Len(out.detections),
          detections |-> out.detections, error |-> ""]
    ELSE [code |-> 500, count |-> 0, detections |-> <<>>, error |-> out.error]

----------------------------------------------------------------------------
(* Calls of non_max_suppression on bounded inputs *)

InitNms ==
    /\ \E n \in 0..MaxLen : detections \in [1..n -> Detection]
    /\ overlap_thresh \in Thresholds
    /\ pick = <<>>
    /\ kept = <<>>
    /\ kept2 = <<>>
    /\ nmsPc = "input"
    /\ via = "direct"
    /\ scene = [loadable |-> FALSE, circles |-> <<>>, contours |-> <<>>]
    /\ params = NoParams
    /\ outcome = NoOutcome
    /\ response = NoResponse
    /\ callPc = "done"
    /\ model_version = 0
    /\ checkpoints = {}
    /\ latest = 0
    /\ annCount = 0
    /\ existCount = 0
    /\ pc = [t \in Requests |-> "done"]
    /\ tmp = [t \in Requests |-> 0]
    /\ path = [t \in Requests |-> 0]
    /\ savedAs = [t \in Requests |-> NotSaved]
    /\ calls = [t \in Requests |-> NoCall]

Suppress ==
    /\ nmsPc = "input"
    /\ pick' = NmsPick(detections, overlap_thresh)
    /\ kept' = non_max_suppression(detections, overlap_thresh)
    /\ nmsPc' = "once"
    /\ UNCHANGED <<detections, overlap_thresh, kept2>>
    /\ UNCHANGED detectVars
    /\ UNCHANGED retrainVars

SuppressAgain ==
    /\ nmsPc = "once"
    /\ kept2' = non_max_suppression(kept, overlap_thresh)
    /\ nmsPc' = "twice"
    /\ UNCHANGED <<detections, overlap_thresh, pick, kept>>
    /\ UNCHANGED detectVars
    /\ UNCHANGED retrainVars

NextNms == Suppress \/ SuppressAgain

SpecNms == InitNms /\ [][NextNms]_vars

----------------------------------------------------------------------------
(* Calls of detect on bounded images and params *)

CircleRadii2 == {2, 5, 7, 10}
ContourAreas100 == {350, 1300}
ContourRadii2 == {3, 5, 7}

SceneCircle == [x2 : {5}, y2 : {4}, r2 : CircleRadii2]

\* A contour's area is at most that of its enclosing circle (pi * r * r).
SceneContour ==
    {c \in [area100 : ContourAreas100, x2 : {5, 12}, y2 : {4},
            radius2 : ContourRadii2] :
        4 * c.area100 <= 315 * c.radius2 * c.radius2}

SeqsUpTo(S, n) == UNION {[1..k -> S] : k \in 0..n}

Unloadable == [loadable |-> FALSE, circles |-> <<>>, contours |-> <<>>]

Scenes ==
    {Unloadable} \cup
    {[loadable |-> TRUE, circles |-> cs, contours |-> ks] :
        cs \in SeqsUpTo(SceneCircle, MaxFeatures),
        ks \in SeqsUpTo(SceneContour, MaxFeatures)}

\* <<sensitivity, min_distance>>
HoughArgs == {<<30, 20>>, <<0, 20>>, <<30, 0>>}

GivenParams ==
    {[given |-> TRUE, min_radius |-> lo, max_radius |-> hi,
      sensitivity |-> a[1], min_distance |-> a[2]] :
        lo \in 0..MaxRadiusParam, hi \in (-1)..MaxRadiusParam, a \in HoughArgs}

InitDetect ==
    /\ via \in {"direct", "upload"}
    /\ scene \in Scenes
    /\ Len(scene.circles) + Len(scene.contours) <= MaxFeatures
    /\ params \in IF via = "direct" THEN GivenParams \cup {NoParams}
                  ELSE GivenParams
    /\ outcome = NoOutcome
    /\ response = NoResponse
    /\ callPc = "pending"
    /\ detections = <<>>
    /\ overlap_thresh = DEFAULT_THRESH
    /\ pick = <<>>
    /\ kept = <<>>
    /\ kept2 = <<>>
    /\ nmsPc = "twice"
    /\ model_version = 0
    /\ checkpoints = {}
    /\ latest = 0
    /\ annCount = 0
    /\ existCount = 0
    /\ pc = [t \in Requests |-> "done"]
    /\ tmp = [t \in Requests |-> 0]
    /\ path = [t \in Requests |-> 0]
    /\ savedAs = [t \in Requests |-> NotSaved]
    /\ calls = [t \in Requests |-> NoCall]

\* A direct call, as example_usage.py makes it: detector.detect(image_path)
DetectCall ==
    /\ callPc = "pending"
    /\ via = "direct"
    /\ outcome' = detect(scene, params)
    /\ callPc' = "done"
    /\ UNCHANGED <<via, scene, params, response>>
    /\ UNCHANGED nmsVars
    /\ UNCHANGED retrainVars

\* upload_image: params from the form fields, detector.detect(filepath,
\* params) inside try, the response from its result or its exception.
UploadImage ==
    /\ callPc = "pending"
    /\ via = "upload"
    /\ outcome' = detect(scene, params)
    /\ response' = upload_response(detect(scene, params))
    /\ callPc' = "done"
    /\ UNCHANGED <<via, scene, params>>
    /\ UNCHANGED nmsVars
    /\ UNCHANGED retrainVars

NextDetect == DetectCall \/ UploadImage

SpecDetect == InitDetect /\ [][NextDetect]_vars

----------------------------------------------------------------------------
(* The retrain path: retrain_model (/api/retrain) and PlaqueDetector.retrain *)
(* on the one detector of the process. The server handles requests on        *)
(* threads of their own, so the reads and writes of detector.model_version   *)
(* of concurrent requests interleave.                                        *)

MIN_SAMPLES == 5

InitRetrain ==
    /\ model_version = 0
    /\ checkpoints = {}
    /\ latest = 0
    /\ annCount \in 0..MaxAnnotations
    /\ existCount \in 0..annCount
    /\ pc = [t \in Requests |-> "start"]
    /\ tmp = [t \in Requests |-> 0]
    /\ path = [t \in Requests |-> 0]
    /\ savedAs = [t \in Requests |-> NotSaved]
    /\ calls = [t \in Requests |-> NoCall]
    /\ detections = <<>>
    /\ overlap_thresh = DEFAULT_THRESH
    /\ pick = <<>>
    /\ kept = <<>>
    /\ kept2 = <<>>
    /\ nmsPc = "twice"
    /\ via = "direct"
    /\ scene = [loadable |-> FALSE, circles |-> <<>>, contours |-> <<>>]
    /\ params = NoParams
    /\ outcome = NoOutcome
    /\ response = NoResponse
    /\ callPc = "done"

Frame == UNCHANGED nmsVars /\ UNCHANGED detectVars

\* retrain_model up to the call of detector.retrain: fewer than 5 annotation
\* files are answered with 400.
LoadAnnotations(t) ==
    /\ pc[t] = "start"
    /\ pc' = [pc EXCEPT ![t] = IF annCount < MIN_SAMPLES THEN "resp400"
                               ELSE "retrain"]
    /\ calls' = [calls EXCEPT ![t] = [ann |-> annCount, exist |-> 0,
                                      before |-> model_version,
                                      after |-> model_version]]
    /\ UNCHANGED <<model_version, checkpoints, latest, annCount, existCount,
                   tmp, path, savedAs>>
    /\ Frame

\* retrain: training_data holds the annotations whose image exists; fewer
\* than 5 raise ValueError, which retrain_model answers with 500.
PrepareTrainingData(t) ==
    /\ pc[t] = "retrain"
    /\ pc' = [pc EXCEPT ![t] = IF existCount < MIN_SAMPLES THEN "resp500"
                               ELSE "read"]
    /\ calls' = [calls EXCEPT ![t].exist = existCount,
                              ![t].after = model_version]
    /\ UNCHANGED <<model_version, checkpoints, latest, annCount, existCount,
                   tmp, path, savedAs>>
    /\ Frame

\* self.model_version += 1, the read
ReadVersion(t) ==
    /\ pc[t] = "read"
    /\ tmp' = [tmp EXCEPT ![t] = model_version]
    /\ pc' = [pc EXCEPT ![t] = "write"]
    /\ UNCHANGED calls
    /\ UNCHANGED <<model_version, checkpoints, latest, annCount, existCount,
                   path, savedAs>>
    /\ Frame

\* self.model_version += 1, the write
WriteVersion(t) ==
    /\ pc[t] = "write"
    /\ model_version' = tmp[t] + 1
    /\ pc' = [pc EXCEPT ![t] = "path"]
    /\ UNCHANGED calls
    /\ UNCHANGED <<checkpoints, latest, annCount, existCount, tmp, path,
                   savedAs>>
    /\ Frame

\* f'model/checkpoints/version_{self.model_version}.pth'
FormatPath(t) ==
    /\ pc[t] = "path"
    /\ path' = [path EXCEPT ![t] = model_version]
    /\ pc' = [pc EXCEPT ![t] = "save"]
    /\ UNCHANGED calls
    /\ UNCHANGED <<model_version, checkpoints, latest, annCount, existCount,
                   tmp, savedAs>>
    /\ Frame

\* A save_model that stores the version read before the increment.
SaveCheckpointStale(t) ==
    /\ pc[t] = "save"
    /\ checkpoints' = {c \in checkpoints : c.path # path[t]}
                          \cup {[path |-> path[t], version |-> tmp[t]]}
    /\ savedAs' = [savedAs EXCEPT
                      ![t] = [path |-> path[t], version |-> tmp[t]]]
    /\ pc' = [pc EXCEPT ![t] = "latest"]
    /\ UNCHANGED calls
    /\ UNCHANGED <<model_version, latest, annCount, existCount, tmp, path>>
    /\ Frame

\* save_model: torch.save({..., 'version': self.model_version}, path)
SaveCheckpoint(t) ==
    /\ pc[t] = "save"
    /\ checkpoints' = {c \in checkpoints : c.path # path[t]}
                          \cup {[path |-> path[t], version |-> model_version]}
    /\ savedAs' = [savedAs EXCEPT
                      ![t] = [path |-> path[t], version |-> model_version]]
    /\ pc' = [pc EXCEPT ![t] = "latest"]
    /\ UNCHANGED calls
    /\ UNCHANGED <<model_version, latest, annCount, existCount, tmp, path>>
    /\ Frame

\* save_model: torch.save({..., 'version': self.model_version}, latest_path),
\* then retrain returns and retrain_model answers 200.
SaveLatest(t) ==
    /\ pc[t] = "latest"
    /\ latest' = model_version
    /\ pc' = [pc EXCEPT ![t] = "resp200"]
    /\ calls' = [calls EXCEPT ![t].after = model_version]
    /\ UNCHANGED <<model_version, checkpoints, annCount, existCount, tmp, path,
                   savedAs>>
    /\ Frame

NextRetrain ==
    \E t \in Requests :
        \/ LoadAnnotations(t)
        \/ PrepareTrainingData(t)
        \/ ReadVersion(t)
        \/ WriteVersion(t)
        \/ FormatPath(t)
        \/ SaveCheckpoint(t)
        \/ SaveLatest(t)

SpecRetrain == InitRetrain /\ [][NextRetrain]_vars

(* Retrain calls made one after another: a request starts only when no other *)
(* request is between its first step and its answer. Between two calls the   *)
(* annotation folder may grow.                                               *)

Answered == {"resp200", "resp400", "resp500"}

Alone(t) == \A u \in Requests \ {t} : pc[u] \in Answered \cup {"start"}

\* save_results / submit_feedback: one more annotation file, for an image_id
\* that is a file of the upload folder or is not.
SaveAnnotation ==
    /\ \A t \in Requests : pc[t] \in Answered \cup {"start"}
    /\ annCount < MaxAnnotations
    /\ annCount' = annCount + 1
    /\ existCount' \in {existCount, existCount + 1}
    /\ UNCHANGED <<model_version, checkpoints, latest, pc, tmp, path, savedAs,
                   calls>>
    /\ Frame

NextRetrainSeq ==
    \/ SaveAnnotation
    \/ \E t \in Requests :
        \/ Alone(t) /\ LoadAnnotations(t)
        \/ Alone(t) /\ PrepareTrainingData(t)
        \/ Alone(t) /\ ReadVersion(t)
        \/ Alone(t) /\ WriteVersion(t)
        \/ Alone(t) /\ FormatPath(t)
        \/ Alone(t) /\ SaveCheckpoint(t)
        \/ Alone(t) /\ SaveLatest(t)

SpecRetrainSeq == InitRetrain /\ [][NextRetrainSeq]_vars

----------------------------------------------------------------------------
(* The overlap measure as the claims word it: boxes are center +/- radius, *)
(* widths and heights are counted with +1, and the intersection is taken   *)
(* over the area of the second box.                                        *)

IntersectionArea(a, b) ==
    LET left == Max(a.x - a.radius, b.x - b.radius)
        right == Min(a.x + a.radius, b.x + b.radius)
        top == Max(a.y - a.radius, b.y - b.radius)
        bottom == Min(a.y + a.radius, b.y + b.radius)
    IN  IF right - left + 1 <= 0 \/ bottom - top + 1 <= 0 THEN 0
        ELSE (right - left + 1) * (bottom - top + 1)

AreaOf(b) == (2 * b.radius + 1) * (2 * b.radius + 1)

\* intersection_area(box(a), box(b)) / area(box(b)) > t
MeasureExceeds(a, b, t) == IntersectionArea(a, b) * t[2] > t[1] * AreaOf(b)

\* intersection_area(box(a), box(b)) / area(box(b)) = t
MeasureEquals(a, b, t) == IntersectionArea(a, b) * t[2] = t[1] * AreaOf(b)

Picked == {pick[k] : k \in 1..Len(pick)}

Called == nmsPc # "input"

\* C1: after non_max_suppression, for every two kept detections a and b where
\* a was selected as the current best before b, the overlap measure
\* intersection_area(box(a), box(b)) / area(box(b)) does not exceed
\* overlap_thresh.
C1_NoOverlapInDirection ==
    Called =>
        /\ kept = [k \in 1..Len(pick) |-> detections[pick[k]]]
        /\ \A a, b \in 1..Len(pick) :
               a < b => ~MeasureExceeds(kept[a], kept[b], overlap_thresh)

\* C1 witness: a call that discarded something and kept two detections whose
\* boxes intersect without exceeding the threshold.
C1_Witness ==
    /\ Called
    /\ Len(pick) < Len(detections)
    /\ \E a, b \in 1..Len(pick) :
           /\ a < b
           /\ IntersectionArea(kept[a], kept[b]) > 0
           /\ ~MeasureExceeds(kept[a], kept[b], overlap_thresh)

\* C2: suppression is idempotent: a second run on its own output returns the
\* same list unchanged (same detections, none dropped, same order), also
\* when several detections share a confidence and have different radii.
C2_Idempotent == nmsPc = "twice" => kept2 = kept

\* C7: all 0.8 detections are selected as current best before any 0.7
\* detection; a discarded 0.8 detection was discarded by a kept 0.8 detection,
\* never by a 0.7 one; and a 0.7 detection whose overlap with a kept 0.8
\* detection exceeds the threshold is never kept.
C7_HoughPreferred ==
    Called =>
        /\ \A a, b \in 1..Len(pick) :
               a < b => ~(kept[a].confidence = CONTOUR_CONF
                          /\ kept[b].confidence = HOUGH_CONF)
        /\ \A d \in (1..Len(detections)) \ Picked :
               detections[d].confidence = HOUGH_CONF =>
                   \E k \in Picked :
                       /\ detections[k].confidence = HOUGH_CONF
                       /\ MeasureExceeds(detections[k], detections[d],
                                         overlap_thresh)
        /\ \A k, d \in Picked :
               (detections[k].confidence = HOUGH_CONF
                /\ detections[d].confidence = CONTOUR_CONF)
               => ~MeasureExceeds(detections[k], detections[d], overlap_thresh)

\* C7 witness: a mixed list whose first element is a 0.7 detection that a
\* later 0.8 detection discarded, while that 0.7 box covers the 0.8 box
\* beyond the threshold in the other direction.
C7_Witness ==
    /\ Called
    /\ Len(detections) >= 2
    /\ detections[1].confidence = CONTOUR_CONF
    /\ 1 \notin Picked
    /\ \E k \in Picked :
           /\ detections[k].confidence = HOUGH_CONF
           /\ MeasureExceeds(detections[k], detections[1], overlap_thresh)
           /\ MeasureExceeds(detections[1], detections[k], overlap_thresh)

\* C9: a detection is discarded only for cause: every input detection absent
\* from the output has a kept detection k, selected before it (so of at least
\* its confidence), whose overlap measure against it is strictly greater than
\* overlap_thresh; a detection whose overlap with every other kept detection
\* is at most overlap_thresh (also exactly equal to it) is itself kept.
C9_DiscardOnlyForCause ==
    Called =>
        /\ \A d \in (1..Len(detections)) \ Picked :
               \E k \in Picked :
                   /\ detections[k].confidence >= detections[d].confidence
                   /\ MeasureExceeds(detections[k], detections[d],
                                     overlap_thresh)
        /\ \A d \in 1..Len(detections) :
               (\A k \in Picked \ {d} :
                    ~MeasureExceeds(detections[k], detections[d],
                                    overlap_thresh))
               => d \in Picked

\* C9 witness: a call that discarded one detection and kept another whose
\* overlap with an earlier kept detection is exactly overlap_thresh.
C9_Witness ==
    /\ Called
    /\ Len(pick) < Len(detections)
    /\ \E a, b \in 1..Len(pick) :
           a < b /\ MeasureEquals(kept[a], kept[b], overlap_thresh)

----------------------------------------------------------------------------
(* Claims about the detection pipeline *)

CallDone == callPc = "done" /\ outcome.status # "none"

P == EffectiveParams(params)

StagesRun == {outcome.stages[k] : k \in 1..Len(outcome.stages)}

DetectionStages == {"hough", "threshold", "suppress"}

ProcessingStages == {"to_rgb", "grayscale", "blur", "equalize"} \cup DetectionStages

\* C3: every detection the pipeline returns, with integer params, satisfies
\* params.min_radius <= radius <= params.max_radius.
C3_RadiusBound ==
    (CallDone /\ outcome.status = "ok") =>
        \A k \in 1..Len(outcome.detections) :
            /\ P.min_radius <= outcome.detections[k].radius
            /\ outcome.detections[k].radius <= P.max_radius

\* C4: a detect call whose params have min_radius >= max_radius is rejected
\* with InvalidParameters before any detection stage runs, and never returns
\* a detection list, for direct calls and for the upload endpoint alike.
C4_InvalidParamsRejected ==
    (CallDone /\ P.min_radius >= P.max_radius) =>
        /\ outcome.status = "raised"
        /\ scene.loadable => outcome.error = "InvalidParameters"
        /\ StagesRun \cap DetectionStages = {}
        /\ via = "upload" => response.code # 200

\* C5: when the image cannot be loaded, detect fails with the image-load
\* error after a single imread: no preprocessing, detection or suppression
\* stage ran, no detection list is produced, and the caller gets that error.
C5_LoadFailureFailsFast ==
    (CallDone /\ ~scene.loadable) =>
        /\ outcome.status = "raised"
        /\ outcome.error = "ValueError: Could not load image"
        /\ outcome.stages = <<"imread">>
        /\ StagesRun \cap ProcessingStages = {}
        /\ outcome.detections = <<>>
        /\ via = "upload" =>
               /\ response.code = 500
               /\ response.error = "ValueError: Could not load image"
               /\ response.detections = <<>>

\* C5 witness: an upload of a file imread cannot decode has been answered.
C5_Witness ==
    /\ CallDone
    /\ ~scene.loadable
    /\ via = "upload"
    /\ response.code = 500

\* C6: zero detections is a normal outcome: non_max_suppression of the empty
\* list is the empty list, and a detect call on a loaded image for which
\* neither detector yields a candidate returns the empty list, not an error.
C6_ZeroDetectionsNotAnError ==
    /\ \A t \in Thresholds : non_max_suppression(<<>>, t) = <<>>
    /\ (/\ CallDone
        /\ scene.loadable
        /\ ~HoughRaises(P)
        /\ HoughCircles(scene, P) = <<>>
        /\ detect_by_thresholding(scene, P) = <<>>)
       => /\ outcome.status = "ok"
          /\ outcome.detections = <<>>
          /\ "suppress" \in StagesRun
          /\ via = "upload" => (response.code = 200 /\ response.count = 0)

\* C6 witness: an image with a circle and a contour, all filtered out by the
\* params, answered with an empty list.
C6_Witness ==
    /\ CallDone
    /\ scene.loadable
    /\ scene.circles # <<>>
    /\ scene.contours # <<>>
    /\ via = "upload"
    /\ response.code = 200
    /\ response.count = 0
    /\ outcome.detections = <<>>

----------------------------------------------------------------------------
(* Claims about the retrain path *)

Succeeded == {t \in Requests : pc[t] = "resp200"}

AllAnswered == \A t \in Requests : pc[t] \in {"resp200", "resp400", "resp500"}

\* C10: for any interleaving of concurrent retrain requests, the final
\* model_version is the initial version plus the number of retrains that
\* succeeded, and no two successful retrains save a checkpoint under the
\* same version number.
C10_VersionSerialized ==
    AllAnswered =>
        /\ model_version = Cardinality(Succeeded)
        /\ \A t, u \in Succeeded :
               t # u => /\ savedAs[t].path # savedAs[u].path
                        /\ savedAs[t].version # savedAs[u].version

\* C12: for every non-empty input list the output of non_max_suppression is
\* non-empty, is made of input detections only, each input position used at
\* most once and every field as it was in the input, and holds a detection
\* whose confidence is the maximum confidence of the input.
C12_KeepsABest ==
    (Called /\ Len(detections) > 0) =>
        /\ Len(kept) > 0
        /\ \E f \in [1..Len(kept) -> 1..Len(detections)] :
               /\ \A j, k \in 1..Len(kept) : j # k => f[j] # f[k]
               /\ \A k \in 1..Len(kept) : kept[k] = detections[f[k]]
        /\ \E k \in 1..Len(kept) :
               \A n \in 1..Len(detections) :
                   kept[k].confidence >= detections[n].confidence

\* C12 witness: of three detections the most confident is the last of the
\* input; it is kept first, one detection is discarded and one other is kept.
C12_Witness ==
    /\ Called
    /\ Len(detections) = 3
    /\ Len(kept) = 2
    /\ detections[1].confidence < detections[3].confidence
    /\ detections[2].confidence < detections[3].confidence
    /\ kept[1] = detections[3]

\* C11: retrain changes the version only on success. A call that finds fewer
\* than 5 annotations with an existing image raises (the endpoint answers
\* 500 although it counted at least 5 annotation files), leaves
\* model_version as it was and saves no checkpoint; a call answered 400 does
\* the same; any other call raises model_version by exactly 1 and saves a
\* checkpoint that carries the new version under the new version's name.
C11_EachCall ==
    /\ \A t \in Requests :
        /\ pc[t] = "resp400" =>
               /\ calls[t].ann < MIN_SAMPLES
               /\ calls[t].after = calls[t].before
               /\ savedAs[t] = NotSaved
        /\ pc[t] = "resp500" =>
               /\ calls[t].ann >= MIN_SAMPLES
               /\ calls[t].exist < MIN_SAMPLES
               /\ calls[t].after = calls[t].before
               /\ savedAs[t] = NotSaved
        /\ pc[t] = "resp200" =>
               /\ calls[t].exist >= MIN_SAMPLES
               /\ calls[t].after = calls[t].before + 1
               /\ savedAs[t] = [path |-> calls[t].after,
                                version |-> calls[t].after]
    /\ \A c \in checkpoints :
           \E t \in Requests : pc[t] \in {"latest", "resp200"} /\ savedAs[t] = c
    /\ (\A t \in Requests : pc[t] \in Answered \cup {"start"}) =>
           /\ model_version = Cardinality(Succeeded)
           /\ latest = model_version

\* C11, with its consequence: over any sequence of retrain calls
\* model_version never decreases.
C11_VersionOnlyOnSuccess ==
    /\ []C11_EachCall
    /\ [][model_version' >= model_version]_vars

\* C11 witness: one call was answered 500 after the endpoint counted at least
\* 5 annotation files, and a later call succeeded.
C11_Witness ==
    \E t, u \in Requests :
        /\ pc[t] = "resp500"
        /\ calls[t].ann >= MIN_SAMPLES
        /\ pc[u] = "resp200"
        /\ calls[u].before = calls[t].after
        /\ model_version = 1

====
